---- MODULE Spec2Model ----
(***************************************************************************)
(* qqc: a line-oriented postfix calculator (src/src/main.rs).              *)
(*                                                                         *)
(* parse turns a script into a Vec<Command>; Evaluator::evaluate folds the *)
(* commands into one accumulator (answer), a variable table (vars) and a   *)
(* history (answers); main prints the final answer.                        *)
(*                                                                         *)
(* Representation.                                                         *)
(*  - A script line is the token vector `line.split_whitespace()` yields;  *)
(*    a token is a string.  What the code asks of a token's text           *)
(*    (starts_with("#"), parse::<f64>()) is tabulated for the tokens of    *)
(*    the alphabet (HashTokens, F64Literals).                              *)
(*  - An f64 is modelled by an integer in -MaxAbs..MaxAbs, the range in    *)
(*    which the six operators are computed exactly; a command whose fold   *)
(*    leaves that range (or divides inexactly, or by zero) is outside the  *)
(*    modelled inputs.                                                     *)
(*                                                                         *)
(* Specifications.                                                         *)
(*  - Spec: main from the call of parse, on scripts of at most MaxLines    *)
(*    lines, one loop iteration of parse or evaluate per step.             *)
(*  - SpecEval: main from the return of parse, on longer scripts over a    *)
(*    narrower alphabet.                                                   *)
(***************************************************************************)
EXTENDS Integers, Sequences, FiniteSets, TLC

\* ------------------------------------------------------------------ bounds
MaxAbs == 256
MaxLines == 2
MaxDeep == 5

\* ------------------------------------------------------------ data types
\* enum Value
Nothing == [tag |-> "Nothing"]
Operand(num) == [tag |-> "Operand", num |-> num]
Variable(name) == [tag |-> "Variable", name |-> name]

\* enum Command
SetVar(name) == [tag |-> "SetVar", name |-> name]
Arith(tag, operands) == [tag |-> tag, operands |-> operands]
ArithTags == {"Add", "Subtract", "Multiply", "Divide", "Power", "Modulo"}

\* enum EngineError
TooManyVariableNames == [tag |-> "TooManyVariableNames"]
MissingVariableName == [tag |-> "MissingVariableName"]
MissingOperands == [tag |-> "MissingOperands"]
UnknownCommand(token) == [tag |-> "UnknownCommand", name |-> token]
MissingVariable(name) == [tag |-> "MissingVariable", name |-> name]
EvaluatorAnswerShouldNotBeValueVariable == [tag |-> "EvaluatorAnswerShouldNotBeValueVariable"]
NoValuesInQueue == [tag |-> "NoValuesInQueue"]

\* Result<T, EngineError>; Running: the call has not returned yet;
\* Panicked: the call unwound through a failed unwrap().
Ok(val) == [tag |-> "Ok", val |-> val]
Err(err) == [tag |-> "Err", err |-> err]
Running == [tag |-> "Running"]
Panicked == [tag |-> "Panicked"]

\* ------------------------------------------------------- token alphabet
AddAliases == {"+", "plus", "add"}
SubtractAliases == {"-", "minus", "subtract"}
MultiplyAliases == {"x", "*", "times", "multiply"}
DivideAliases == {"/", "div", "divide"}
PowerAliases == {"**", "^", "power"}
ModuloAliases == {"%", "mod", "modulus", "modulo"}

\* tokens t of the alphabet with t.starts_with("#")
HashTokens == {"#", "#c"}

\* tokens t of the alphabet with t.parse::<f64>() == Ok(v), and v
F64Literals == [t \in {"2", "3", "-3"} |-> CASE t = "2" -> 2 [] t = "3" -> 3 [] t = "-3" -> 0 - 3]

\* ----------------------------------------------------------------- parser
parse_float(input) ==
    IF input \in DOMAIN F64Literals
    THEN Ok(Operand(F64Literals[input]))
    ELSE Ok(Variable(input))

parse_operands(operand_strings) ==
    Ok([i \in 1..Len(operand_strings) |-> parse_float(operand_strings[i]).val])

parse_var_name(var_name) == Ok(var_name)

\* parse_set_var with the upper length test off by one
parse_set_var_off_by_one(input) ==
    IF Len(input) <= 1 THEN Err(MissingVariableName)
    ELSE IF Len(input) > 3 THEN Err(TooManyVariableNames)
    ELSE Ok(SetVar(parse_var_name(input[2]).val))

parse_set_var(input) ==
    IF Len(input) <= 1 THEN Err(MissingVariableName)
    ELSE IF Len(input) >= 3 THEN Err(TooManyVariableNames)
    ELSE Ok(SetVar(parse_var_name(input[2]).val))

\* parse_arith with the length test one short: the selector alone passes
parse_arith_one_short(tag, input) ==
    IF Len(input) <= 0 THEN Err(MissingOperands)
    ELSE Ok(Arith(tag, parse_operands(SubSeq(input, 1, Len(input) - 1)).val))

\* the common body of parse_add .. parse_modulo
parse_arith(tag, input) ==
    IF Len(input) <= 1 THEN Err(MissingOperands)
    ELSE Ok(Arith(tag, parse_operands(SubSeq(input, 1, Len(input) - 1)).val))

parse_add(input) == parse_arith("Add", input)
parse_subtract(input) == parse_arith("Subtract", input)
parse_multiply(input) == parse_arith("Multiply", input)
parse_divide(input) == parse_arith("Divide", input)
parse_power(input) == parse_arith("Power", input)
parse_modulo(input) == parse_arith("Modulo", input)

\* select_operator where the divide arm lacks the alias `div`
select_operator_no_div(command) ==
    LET x == command[Len(command)] IN
    IF x \in AddAliases THEN parse_add(command)
    ELSE IF x \in SubtractAliases THEN parse_subtract(command)
    ELSE IF x \in MultiplyAliases THEN parse_multiply(command)
    ELSE IF x \in DivideAliases \ {"div"} THEN parse_divide(command)
    ELSE IF x \in PowerAliases THEN parse_power(command)
    ELSE IF x \in ModuloAliases THEN parse_modulo(command)
    ELSE Err(UnknownCommand(x))

\* match command.last() of parse: the selector's parse function applied
select_operator(command) ==
    LET x == command[Len(command)] IN
    IF x \in AddAliases THEN parse_add(command)
    ELSE IF x \in SubtractAliases THEN parse_subtract(command)
    ELSE IF x \in MultiplyAliases THEN parse_multiply(command)
    ELSE IF x \in DivideAliases THEN parse_divide(command)
    ELSE IF x \in PowerAliases THEN parse_power(command)
    ELSE IF x \in ModuloAliases THEN parse_modulo(command)
    ELSE Err(UnknownCommand(x))

\* parse_line where only a line that is the comment token alone is skipped
parse_line_comment_alone(command) ==
    IF command = <<>> THEN [kind |-> "continue"]
    ELSE IF Len(command) = 1 /\ command[1] \in HashTokens THEN [kind |-> "continue"]
    ELSE LET r == IF command[1] = "=" THEN parse_set_var(command)
                  ELSE select_operator(command)
         IN IF r.tag = "Ok" THEN [kind |-> "push", cmd |-> r.val]
            ELSE [kind |-> "return", err |-> r.err]

\* One iteration of parse's loop over the token vector `command` of a line:
\*   [kind |-> "continue"]          nothing pushed, next line
\*   [kind |-> "push", cmd |-> c]   output.push(c)
\*   [kind |-> "return", err |-> e] return Err(e)
parse_line(command) ==
    IF command = <<>> THEN [kind |-> "continue"]
    ELSE IF command[1] \in HashTokens THEN [kind |-> "continue"]
    ELSE LET r == IF command[1] = "=" THEN parse_set_var(command)
                  ELSE select_operator(command)
         IN IF r.tag = "Ok" THEN [kind |-> "push", cmd |-> r.val]
            ELSE [kind |-> "return", err |-> r.err]

\* ------------------------------------------------------------- arithmetic
Abs(n) == IF n < 0 THEN 0 - n ELSE n
Sign(n) == IF n < 0 THEN 0 - 1 ELSE IF n = 0 THEN 0 ELSE 1
InRange(n) == Abs(n) <= MaxAbs

RECURSIVE IntPow(_, _)
IntPow(b, e) == IF e = 0 THEN 1 ELSE b * IntPow(b, e - 1)

\* the nested fns of evaluate
add(acc, x) == acc + x
subtract(acc, x) == acc - x
multiply(acc, x) == acc * x
\* acc / x, where the quotient is an integer
divide(acc, x) == Sign(acc) * Sign(x) * (Abs(acc) \div Abs(x))
\* acc.powf(x), where the power is an integer
power(acc, x) == IF x >= 0 THEN IntPow(acc, x) ELSE IntPow(acc, Abs(x))
\* acc % x: the remainder of the truncated division, signed as acc
modulo(acc, x) == Sign(acc) * (Abs(acc) % Abs(x))

\* the fn(f64, f64) -> f64 a command's tag selects in evaluate
operator(tag, acc, x) ==
    CASE tag = "Add" -> add(acc, x)
      [] tag = "Subtract" -> subtract(acc, x)
      [] tag = "Multiply" -> multiply(acc, x)
      [] tag = "Divide" -> divide(acc, x)
      [] tag = "Power" -> power(acc, x)
      [] tag = "Modulo" -> modulo(acc, x)

\* operator(tag, acc, x) is an integer of the modelled range
Exact(tag, acc, x) ==
    IF tag \in {"Divide", "Modulo"} /\ x = 0 THEN FALSE
    ELSE IF tag = "Divide" /\ Abs(acc) % Abs(x) # 0 THEN FALSE
    ELSE IF tag = "Power" /\ x < 0 /\ Abs(acc) # 1 THEN FALSE
    ELSE InRange(operator(tag, acc, x))

\* -------------------------------------------------------------- evaluator
\* HashMap::new()
NoVars == [n \in {} |-> 0]
\* an insert that keeps the value of a key already present
insert_keep(vars_, name, num) ==
    [n \in (DOMAIN vars_) \cup {name} |-> IF n \in DOMAIN vars_ THEN vars_[n] ELSE num]
\* an insert into a fresh table: the other names are lost
insert_alone(vars_, name, num) == [n \in {name} |-> num]
\* vars.insert(name, num)
insert(vars_, name, num) ==
    [n \in (DOMAIN vars_) \cup {name} |-> IF n = name THEN num ELSE vars_[n]]

\* the closure of operate's filter_map, on one value: Some(num) as <<num>>,
\* None as <<>>
resolve(vars_, v) ==
    CASE v.tag = "Nothing" -> <<>>
      [] v.tag = "Operand" -> <<v.num>>
      [] v.tag = "Variable" ->
            IF v.name \in DOMAIN vars_ THEN <<vars_[v.name]>> ELSE <<>>

RECURSIVE filter_map(_, _)
filter_map(vars_, operands) ==
    IF operands = <<>> THEN <<>>
    ELSE resolve(vars_, Head(operands)) \o filter_map(vars_, Tail(operands))

\* the names the closure stores in get_var_error_name, in the order it
\* stores them (get_var_error_flag: the sequence is not empty)
RECURSIVE get_var_errors(_, _)
get_var_errors(vars_, operands) ==
    IF operands = <<>> THEN <<>>
    ELSE LET v == Head(operands) IN
         (IF v.tag = "Variable" /\ v.name \notin DOMAIN vars_
          THEN <<v.name>> ELSE <<>>) \o get_var_errors(vars_, Tail(operands))

\* reduce_from with the operator's arguments exchanged
RECURSIVE reduce_from_swapped(_, _, _)
reduce_from_swapped(tag, acc, rest) ==
    IF rest = <<>> THEN acc
    ELSE reduce_from_swapped(tag, operator(tag, Head(rest), acc), Tail(rest))

\* a fold from the right: acc op (rest[1] op (rest[2] op ...))
RECURSIVE reduce_from_right(_, _, _)
reduce_from_right(tag, acc, rest) ==
    IF rest = <<>> THEN acc
    ELSE operator(tag, acc, reduce_from_right(tag, Head(rest), Tail(rest)))

\* Iterator::reduce, from the accumulator acc over the rest of the items
RECURSIVE reduce_from(_, _, _)
reduce_from(tag, acc, rest) ==
    IF rest = <<>> THEN acc
    ELSE reduce_from(tag, operator(tag, acc, Head(rest)), Tail(rest))

\* Iterator::reduce: None (as <<>>) on no item, Some(fold) otherwise
reduce(tag, nums) ==
    IF nums = <<>> THEN <<>>
    ELSE <<reduce_from(tag, Head(nums), Tail(nums))>>

\* every step of reduce_from stays in the modelled range
RECURSIVE ExactFrom(_, _, _)
ExactFrom(tag, acc, rest) ==
    IF rest = <<>> THEN TRUE
    ELSE IF Exact(tag, acc, Head(rest))
         THEN ExactFrom(tag, operator(tag, acc, Head(rest)), Tail(rest))
         ELSE FALSE

\* operands.insert(0, self.answer.clone())
working_list_appended(answer_, operands) == operands \o <<answer_>>
working_list(answer_, operands) == <<answer_>> \o operands

\* Evaluator::operate: Ok(Operand), Err(MissingVariable) or the panic of
\* unwrap() on the None that reduce returns for no item.  The fold is only
\* computed where its value is returned (a discarded f64 has no effect).
operate(answer_, vars_, tag, operands) ==
    LET working == working_list(answer_, operands)
        nums == filter_map(vars_, working)
        names == get_var_errors(vars_, working)
    IN IF nums = <<>> THEN Panicked
       ELSE IF names # <<>> THEN Err(MissingVariable(names[Len(names)]))
       ELSE Ok(Operand(reduce(tag, nums)[1]))

\* the result operate returns is computed inside the modelled range
InModel(answer_, vars_, tag, operands) ==
    LET working == working_list(answer_, operands)
        nums == filter_map(vars_, working)
    IN IF nums = <<>> \/ get_var_errors(vars_, working) # <<>> THEN TRUE
       ELSE ExactFrom(tag, Head(nums), Tail(nums))

\* a SetVar arm that takes an empty accumulator for nothing to store
set_var_lenient(answer_, vars_, name) ==
    CASE answer_.tag = "Nothing" -> Ok(vars_)
      [] answer_.tag = "Operand" -> Ok(insert(vars_, name, answer_.num))
      [] answer_.tag = "Variable" -> Err(EvaluatorAnswerShouldNotBeValueVariable)

\* the Command::SetVar arm of evaluate, up to the reset of the accumulator
set_var(answer_, vars_, name) ==
    CASE answer_.tag = "Nothing" -> Err(NoValuesInQueue)
      [] answer_.tag = "Operand" -> Ok(insert(vars_, name, answer_.num))
      [] answer_.tag = "Variable" -> Err(EvaluatorAnswerShouldNotBeValueVariable)

\* ------------------------------------------------------------------ state
VARIABLES
    pc,           \* where main is: "parse", "evaluate", "match", "exit"
    line,         \* parse: the token vector of the line being processed
    lineno,       \* parse: the number of lines taken from input.lines()
    output,       \* parse: the Vec<Command> built so far
    parse_result, \* what parse returned
    commands,     \* evaluate: its argument
    i,            \* evaluate: the number of commands taken from the slice
    command,      \* evaluate: the command being processed
    vars,         \* Evaluator.vars
    answers,      \* Evaluator.answers
    answer,       \* Evaluator.answer
    eval_result,  \* what evaluate returned
    main_result   \* what main returned: Ok(the number printed) or Err

vars_all == <<pc, line, lineno, output, parse_result, commands, i, command,
              vars, answers, answer, eval_result, main_result>>
parse_vars == <<line, lineno, output, parse_result>>
eval_vars == <<commands, i, command, vars, answers, answer, eval_result>>

NoCommand == [tag |-> "None"]

\* ----------------------------------------------------------------- inputs
\* operand token lists of the lines a script is made of
OperandLists == {<<>>, <<"2">>, <<"y">>, <<"3", "x">>}
\* trailing tokens: every operator alias, and tokens that are none
Selectors ==
    AddAliases \cup SubtractAliases \cup MultiplyAliases \cup DivideAliases
    \cup PowerAliases \cup ModuloAliases \cup {"foo", "Plus", "2"}
OperationLines == {ops \o <<sel>> : ops \in OperandLists, sel \in Selectors}
AssignmentLines ==
    {<<"=">>, <<"=", "x">>, <<"=", "y">>, <<"=", "2">>, <<"=", "+">>,
     <<"=", "x", "y">>, <<"=", "x", "+">>}
CommentLines ==
    {<<"#">>, <<"#c">>, <<"#", "2", "2", "+">>, <<"#c", "foo">>, <<"#", "=">>}
Lines == {<<>>} \cup OperationLines \cup AssignmentLines \cup CommentLines

\* Evaluator::new(), before evaluate is entered
EvaluatorNew ==
    /\ vars = NoVars
    /\ answers = <<>>
    /\ answer = Nothing
    /\ command = NoCommand
    /\ i = 0
    /\ eval_result = Running

\* main, at the call of parse on the script of one command-line argument
Init ==
    /\ pc = "parse"
    /\ line = <<>>
    /\ lineno = 0
    /\ output = <<>>
    /\ parse_result = Running
    /\ commands = <<>>
    /\ EvaluatorNew
    /\ main_result = Running

\* ----------------------------------------------------------------- parse
\* one iteration of `for line in input.lines()`, on the next line l
ParseContinue(l) ==
    /\ parse_line(l).kind = "continue"
    /\ UNCHANGED <<pc, output, parse_result, main_result>>

ParsePush(l) ==
    /\ parse_line(l).kind = "push"
    /\ output' = Append(output, parse_line(l).cmd)
    /\ UNCHANGED <<pc, parse_result, main_result>>

\* an erroneous line that is skipped
ParseFail_skipped(l) ==
    /\ parse_line(l).kind = "return"
    /\ UNCHANGED <<pc, output, parse_result, main_result>>

\* return Err(..) out of parse, and main's `?` on it
ParseFail(l) ==
    /\ parse_line(l).kind = "return"
    /\ parse_result' = Err(parse_line(l).err)
    /\ main_result' = Err(parse_line(l).err)
    /\ pc' = "exit"
    /\ UNCHANGED output

ParseLine ==
    /\ pc = "parse"
    /\ lineno < MaxLines
    /\ \E l \in Lines :
        /\ line' = l
        /\ lineno' = lineno + 1
        /\ (ParseContinue(l) \/ ParsePush(l) \/ ParseFail(l))
    /\ UNCHANGED eval_vars

\* input.lines() is exhausted: Ok(output), and main calls evaluate on it
ParseReturn ==
    /\ pc = "parse"
    /\ parse_result' = Ok(output)
    /\ commands' = output
    /\ pc' = "evaluate"
    /\ UNCHANGED <<line, lineno, output, i, command, vars, answers, answer,
                   eval_result, main_result>>

\* -------------------------------------------------------------- evaluate
\* `for command in commands` has a next command
HasNext == pc = "evaluate" /\ i < Len(commands)

\* an error that is recorded while the loop goes on
Fail_and_go_on(err) ==
    /\ eval_result' = Err(err)
    /\ main_result' = Err(err)
    /\ UNCHANGED <<pc, vars, answers, answer>>

\* the `?` of evaluate and of main on Err(err): both return it
Fail(err) ==
    /\ eval_result' = Err(err)
    /\ main_result' = Err(err)
    /\ pc' = "exit"
    /\ UNCHANGED <<vars, answers, answer>>

\* the process unwinds through evaluate and main
Panic ==
    /\ eval_result' = Panicked
    /\ main_result' = Panicked
    /\ pc' = "exit"
    /\ UNCHANGED <<vars, answers, answer>>

\* a history that keeps the latest value only
push_latest(answers_, v) == <<v>>
\* self.answers.push(v)
push(answers_, v) == Append(answers_, v)

\* the accumulator is left as it was
keep_answer == answer
\* self.answer = Value::Nothing
reset_answer == Nothing

\* the arm Command::SetVar(name)
EvalSetVar ==
    /\ HasNext
    /\ commands[i + 1].tag = "SetVar"
    /\ command' = commands[i + 1]
    /\ i' = i + 1
    /\ LET r == set_var(answer, vars, commands[i + 1].name) IN
        IF r.tag = "Ok"
        THEN /\ vars' = r.val
             /\ answer' = reset_answer
             /\ answers' = push(answers, reset_answer)
             /\ UNCHANGED <<pc, eval_result, main_result>>
        ELSE Fail(r.err)
    /\ UNCHANGED <<commands, parse_vars>>

\* the arms Command::Add(operands) .. Command::Modulo(operands)
EvalArith ==
    /\ HasNext
    /\ commands[i + 1].tag \in ArithTags
    /\ InModel(answer, vars, commands[i + 1].tag, commands[i + 1].operands)
    /\ command' = commands[i + 1]
    /\ i' = i + 1
    /\ LET r == operate(answer, vars, commands[i + 1].tag, commands[i + 1].operands) IN
        CASE r.tag = "Ok" ->
                /\ answer' = r.val
                /\ answers' = push(answers, r.val)
                /\ UNCHANGED <<pc, vars, eval_result, main_result>>
          [] r.tag = "Err" -> Fail(r.err)
          [] r.tag = "Panicked" -> Panic
    /\ UNCHANGED <<commands, parse_vars>>

\* the loop is over: Ok(self.answer)
EvalReturn ==
    /\ pc = "evaluate"
    /\ i = Len(commands)
    /\ eval_result' = Ok(answer)
    /\ pc' = "match"
    /\ UNCHANGED <<commands, i, command, vars, answers, answer, main_result,
                   parse_vars>>

\* main: match answer
MainMatch ==
    /\ pc = "match"
    /\ main_result' =
        CASE eval_result.val.tag = "Nothing" -> Err(NoValuesInQueue)
          [] eval_result.val.tag = "Operand" -> Ok(eval_result.val.num)
          [] eval_result.val.tag = "Variable" ->
                Err(EvaluatorAnswerShouldNotBeValueVariable)
    /\ pc' = "exit"
    /\ UNCHANGED <<eval_vars, parse_vars>>

\* --------------------------------------------------------- specifications
\* main on a script of at most MaxLines lines over Lines
Next ==
    \/ ParseLine
    \/ ParseReturn
    \/ EvalSetVar
    \/ EvalArith
    \/ EvalReturn
    \/ MainMatch

Spec == Init /\ [][Next]_vars_all

\* main from the return of parse (the script held no erroneous line), on
\* two families of scripts:
\*   InitDeep       at most MaxDeep lines over DeepLines;
\*   InitOperators  a script of Setups, then at most MaxLines operation
\*                  lines over every operator and EvalOperandLists.
DeepLines ==
    {<<"2", "+">>, <<"3", "+">>, <<"3", "x", "-">>, <<"x", "*">>,
     <<"=", "x">>, <<"=", "y">>}

Setups ==
    {<<>>,
     <<<<"2", "+">>, <<"=", "x">>>>,
     <<<<"2", "+">>, <<"=", "x">>, <<"3", "+">>>>,
     <<<<"3", "+">>, <<"=", "2">>>>,
     <<<<"2", "+">>, <<"=", "x">>, <<"2", "x", "*">>>>}

EvalOperandLists == {<<"2">>, <<"3", "x">>, <<"2", "y">>, <<"y", "z">>}
EvalLines ==
    {ops \o <<sel>> : ops \in EvalOperandLists,
                      sel \in {"+", "-", "*", "/", "^", "%"}}

\* main at the call of evaluate, parse having returned the commands of script
AfterParse(script) ==
    LET cs == [k \in 1..Len(script) |-> parse_line(script[k]).cmd] IN
    /\ pc = "evaluate"
    /\ line = IF script = <<>> THEN <<>> ELSE script[Len(script)]
    /\ lineno = Len(script)
    /\ output = cs
    /\ parse_result = Ok(cs)
    /\ commands = cs
    /\ EvaluatorNew
    /\ main_result = Running

InitDeep == \E n \in 0..MaxDeep : \E script \in [1..n -> DeepLines] : AfterParse(script)

InitOperators ==
    \E setup \in Setups : \E n \in 0..MaxLines : \E s \in [1..n -> EvalLines] :
        AfterParse(setup \o s)

InitEval == InitDeep \/ InitOperators

NextEval ==
    \/ EvalSetVar
    \/ EvalArith
    \/ EvalReturn
    \/ MainMatch

SpecEval == InitEval /\ [][NextEval]_vars_all

\* ------------------------------------------------------------------ claims
\* The command `command` = commands[i] was processed and did not fail.
Succeeded == i >= 1 /\ eval_result.tag \in {"Running", "Ok"}
\* The command `command` = commands[i] was processed and evaluate failed on it.
Failed == i >= 1 /\ eval_result.tag \in {"Err", "Panicked"}
\* The accumulator commands[i] was processed on: a failing command leaves
\* the accumulator alone, a successful one has pushed its result to answers.
Before ==
    IF Failed THEN answer
    ELSE IF Len(answers) >= 2 THEN answers[Len(answers) - 1] ELSE Nothing
IsArith(c) == c.tag \in ArithTags
AbsentNames(c) ==
    {c.operands[k].name : k \in {j \in 1..Len(c.operands) :
        c.operands[j].tag = "Variable" /\ c.operands[j].name \notin DOMAIN vars}}
\* the numbers a command's operands stand for, in the current table
ValueOf(v) == IF v.tag = "Operand" THEN v.num ELSE vars[v.name]
OperandValues(c) == [k \in 1..Len(c.operands) |-> ValueOf(c.operands[k])]
AccumulatorValues(v) == IF v.tag = "Operand" THEN <<v.num>> ELSE <<>>
\* the left-to-right fold ((s[1] op s[2]) op ...) op s[n], n >= 1
RECURSIVE FoldLeft(_, _)
FoldLeft(tag, s) ==
    IF Len(s) = 1 THEN s[1]
    ELSE operator(tag, FoldLeft(tag, SubSeq(s, 1, Len(s) - 1)), s[Len(s)])

\* C1: an arithmetic command whose operands all resolve to numbers succeeds
\* and leaves Operand of the left-to-right fold of its operator over the
\* accumulator's number (when there is one) followed by the operands' numbers.
C1_FoldOverAccumulatorAndOperands ==
    (i >= 1 /\ IsArith(command) /\ AbsentNames(command) = {}) =>
        /\ Succeeded
        /\ answer = Operand(FoldLeft(command.tag,
                        AccumulatorValues(Before) \o OperandValues(command)))

C1_Witness ==
    /\ Succeeded
    /\ command.tag = "Subtract"
    /\ Len(command.operands) = 2
    /\ Before.tag = "Operand"
    /\ command.operands[1].tag = "Operand"
    /\ command.operands[2].tag = "Variable"
    /\ Before.num # command.operands[1].num

\* C2: an arithmetic command with an operand naming a variable absent from
\* the table makes evaluate return MissingVariable of an absent name.
C2_MissingVariableReturned ==
    (i >= 1 /\ IsArith(command) /\ AbsentNames(command) # {}) =>
        /\ eval_result.tag = "Err"
        /\ eval_result.err.tag = "MissingVariable"
        /\ eval_result.err.name \in AbsentNames(command)

\* C3: parse followed by evaluate never aborts on the empty fold: main ends
\* with a value or an EngineError.
C3_NoEmptyFold == main_result.tag # "Panicked" /\ eval_result.tag # "Panicked"

\* C4: the accumulator is never Variable; a successful arithmetic command
\* leaves it Operand and a successful SetVar leaves it Nothing.
C4_AccumulatorStates ==
    /\ answer.tag \in {"Nothing", "Operand"}
    /\ (Succeeded /\ IsArith(command)) => answer.tag = "Operand"
    /\ (Succeeded /\ command.tag = "SetVar") => answer = Nothing

C4_Witness ==
    /\ Succeeded
    /\ command.tag = "SetVar"
    /\ Before.tag = "Operand"
    /\ answer = Nothing

\* C5: SetVar on an empty accumulator fails with NoValuesInQueue; so does a
\* SetVar that directly follows a SetVar.
C5_SetVarOnNothingFails ==
    /\ (i >= 1 /\ command.tag = "SetVar" /\ Before = Nothing) =>
            (eval_result.tag = "Err" /\ eval_result.err = NoValuesInQueue)
    /\ (i >= 2 /\ commands[i - 1].tag = "SetVar" /\ commands[i].tag = "SetVar") =>
            (eval_result.tag = "Err" /\ eval_result.err = NoValuesInQueue)

C5_Witness ==
    /\ i = 3
    /\ commands[2].tag = "SetVar"
    /\ commands[3].tag = "SetVar"
    /\ eval_result.tag = "Err"
    /\ eval_result.err = NoValuesInQueue

\* the index of the last SetVar(name) among commands[1..k-1], 0 if none
LastSetVar(name, k) ==
    LET js == {j \in 1..(k - 1) : commands[j] = SetVar(name)} IN
    IF js = {} THEN 0 ELSE CHOOSE j \in js : \A j2 \in js : j2 <= j
\* a SetVar at j >= 2 that succeeded captured the result of command j - 1
Captured(j) == answers[j - 1]
NamesSet(k) == {commands[j].name : j \in {j2 \in 1..(k - 1) : commands[j2].tag = "SetVar"}}
VariableNames(c) ==
    {c.operands[k].name : k \in {j \in 1..Len(c.operands) : c.operands[j].tag = "Variable"}}
\* the numbers a command's operands stand for, by the history of assignments
HistoryValue(v, k) ==
    IF v.tag = "Operand" THEN v.num ELSE Captured(LastSetVar(v.name, k)).num
HistoryValues(c, k) == [n \in 1..Len(c.operands) |-> HistoryValue(c.operands[n], k)]

\* C6: a successful SetVar(name) binds name to the number the accumulator
\* held; the table maps every name assigned so far to the number captured by
\* its most recent assignment; a successful arithmetic command uses, for an
\* operand Variable(name), that number; right after a SetVar it folds over
\* its own operands only.
C6_VariableRoundTrip ==
    /\ (Succeeded /\ command.tag = "SetVar") =>
            /\ Before.tag = "Operand"
            /\ command.name \in DOMAIN vars
            /\ vars[command.name] = Before.num
    /\ DOMAIN vars = NamesSet(Len(answers) + 1)
    /\ \A name \in DOMAIN vars :
            /\ LastSetVar(name, Len(answers) + 1) >= 2
            /\ vars[name] = Captured(LastSetVar(name, Len(answers) + 1)).num
    /\ (Succeeded /\ IsArith(command)) =>
            /\ \A name \in VariableNames(command) : LastSetVar(name, i) >= 2
            /\ answer = Operand(FoldLeft(command.tag,
                            AccumulatorValues(Before) \o HistoryValues(command, i)))
            /\ (i >= 2 /\ commands[i - 1].tag = "SetVar") =>
                    answer = Operand(FoldLeft(command.tag, HistoryValues(command, i)))

C6_Witness ==
    /\ Succeeded
    /\ i = 5
    /\ commands[2] = SetVar("x")
    /\ commands[4] = SetVar("x")
    /\ answers[1] # answers[3]
    /\ IsArith(command)
    /\ "x" \in VariableNames(command)

\* C7: when the last command of a script is a successful SetVar, the run
\* ends with the answer Nothing and main does not report an error.
C7_FinalNothingIsNotAnError ==
    (/\ pc = "exit"
     /\ eval_result.tag = "Ok"
     /\ commands # <<>>
     /\ commands[Len(commands)].tag = "SetVar") =>
        /\ eval_result.val = Nothing
        /\ main_result.tag # "Err"

\* C8: commands are processed in order; evaluate returns on the first command
\* that fails, with that command's error, and processes nothing after it.
C8_StopsAtFirstFailure ==
    /\ [](/\ i >= 1 => command = commands[i]
          /\ ~Failed => Len(answers) = i
          /\ (Failed /\ eval_result.tag = "Err") =>
                /\ Len(answers) = i - 1
                /\ pc = "exit"
                /\ main_result = eval_result
                /\ command.tag = "SetVar" =>
                        (answer = Nothing /\ eval_result.err = NoValuesInQueue)
                /\ IsArith(command) =>
                        /\ eval_result.err.tag = "MissingVariable"
                        /\ eval_result.err.name \in AbsentNames(command))
    /\ [][Failed => UNCHANGED <<i, command, vars, answers, answer, eval_result,
                                main_result>>]_vars_all

C8_Witness ==
    /\ Failed
    /\ eval_result.tag = "Err"
    /\ i >= 2
    /\ i < Len(commands)

\* the error of a line, by the line's shape: {} for a line that is none
AllAliases ==
    AddAliases \cup SubtractAliases \cup MultiplyAliases \cup DivideAliases
    \cup PowerAliases \cup ModuloAliases
ErrorsOf(l) ==
    IF l = <<>> THEN {}
    ELSE IF l[1] \in HashTokens THEN {}
    ELSE IF l[1] = "=" THEN
        (IF Len(l) = 1 THEN {MissingVariableName}
         ELSE IF Len(l) >= 3 THEN {TooManyVariableNames} ELSE {})
    ELSE IF l[Len(l)] \notin AllAliases THEN {UnknownCommand(l[Len(l)])}
    ELSE IF Len(l) = 1 THEN {MissingOperands} ELSE {}

\* C9: parse returns the error of the first erroneous line (UnknownCommand
\* with the trailing token for an unknown selector) and no command list; no
\* line after it is processed and evaluate is not run.
C9_ParseFailFast ==
    /\ [](lineno >= 1 =>
            IF ErrorsOf(line) # {}
            THEN /\ parse_result.tag = "Err"
                 /\ parse_result.err \in ErrorsOf(line)
                 /\ main_result = parse_result
                 /\ pc = "exit"
                 /\ commands = <<>>
                 /\ i = 0
                 /\ eval_result = Running
            ELSE parse_result.tag # "Err")
    /\ [][parse_result.tag = "Err" => UNCHANGED vars_all]_vars_all

C9_Witness ==
    /\ lineno = 2
    /\ output # <<>>
    /\ parse_result.tag = "Err"
    /\ parse_result.err = UnknownCommand("foo")

\* C10: a line whose first token is `=` fails with MissingVariableName when
\* nothing follows, with TooManyVariableNames when two or more tokens follow,
\* and pushes SetVar(token) when exactly one token follows.
C10_AssignmentLine ==
    (lineno >= 1 /\ line # <<>> /\ line[1] = "=") =>
        /\ Len(line) = 1 =>
                (parse_result.tag = "Err" /\ parse_result.err = MissingVariableName)
        /\ Len(line) >= 3 =>
                (parse_result.tag = "Err" /\ parse_result.err = TooManyVariableNames)
        /\ Len(line) = 2 =>
                /\ parse_result.tag # "Err"
                /\ output # <<>>
                /\ output[Len(output)] = SetVar(line[2])

C10_Witness ==
    /\ lineno >= 1
    /\ line = <<"=", "+">>
    /\ output # <<>>
    /\ output[Len(output)] = SetVar("+")

\* the arithmetic commands parse has produced so far
ParsedCommands ==
    {output[k] : k \in 1..Len(output)} \cup {commands[k] : k \in 1..Len(commands)}
    \cup (IF parse_result.tag = "Ok"
          THEN {parse_result.val[k] : k \in 1..Len(parse_result.val)} ELSE {})

\* C11: a line that is one operator alias and nothing else makes parse
\* return MissingOperands, whichever alias it is; and every arithmetic command
\* parse produces has at least one operand, none of them Nothing.
C11_OperatorAloneIsMissingOperands ==
    /\ (lineno >= 1 /\ Len(line) = 1 /\ line[1] \in AllAliases) =>
            (parse_result.tag = "Err" /\ parse_result.err = MissingOperands)
    /\ \A c \in ParsedCommands : IsArith(c) =>
            /\ Len(c.operands) >= 1
            /\ \A k \in 1..Len(c.operands) : c.operands[k].tag # "Nothing"

C11_Witness ==
    /\ lineno = 2
    /\ line = <<"modulus">>
    /\ \E c \in ParsedCommands : IsArith(c)
    /\ parse_result.tag = "Err"
    /\ parse_result.err = MissingOperands

\* a line parse skips: no tokens, or a first token that starts with `#`
IsSkipped(l) == IF l = <<>> THEN TRUE ELSE l[1] \in HashTokens

\* C12: reading a blank line or a line whose first token starts with `#`,
\* whatever follows the token, changes nothing of parse but its position in
\* the script: the commands collected, the result and everything downstream
\* are as if the line were not there.
C12_SkippedLinesChangeNothing ==
    [][(pc = "parse" /\ lineno' = lineno + 1 /\ IsSkipped(line')) =>
            UNCHANGED <<pc, output, parse_result, commands, i, command, vars,
                        answers, answer, eval_result, main_result>>]_vars_all

C12_Witness ==
    /\ pc = "parse"
    /\ lineno = 2
    /\ line = <<"#c", "foo">>
    /\ output # <<>>
    /\ parse_result = Running

\* the operator a trailing token selects, by the families of the alias table
Family(tok) ==
    CASE tok \in {"+", "plus", "add"} -> "Add"
      [] tok \in {"-", "minus", "subtract"} -> "Subtract"
      [] tok \in {"x", "*", "times", "multiply"} -> "Multiply"
      [] tok \in {"/", "div", "divide"} -> "Divide"
      [] tok \in {"**", "^", "power"} -> "Power"
      [] tok \in {"%", "mod", "modulus", "modulo"} -> "Modulo"
      [] OTHER -> "None"

\* C13: on a line that is neither skipped nor an assignment and has operand
\* tokens, the command parse pushes is determined by the family of the
\* trailing token and the operand tokens alone, so two aliases of one family
\* give the same command; a trailing token of no family (another case, another
\* word) selects no operator and parse returns UnknownCommand of that token.
C13_AliasesSelectTheSameCommand ==
    (lineno >= 1 /\ ~IsSkipped(line) /\ line[1] # "=") =>
        LET sel == line[Len(line)]
            ops == SubSeq(line, 1, Len(line) - 1)
        IN /\ (Family(sel) # "None" /\ ops # <<>>) =>
                /\ parse_result.tag # "Err"
                /\ output # <<>>
                /\ output[Len(output)] = Arith(Family(sel), parse_operands(ops).val)
           /\ Family(sel) = "None" =>
                /\ parse_result.tag = "Err"
                /\ parse_result.err = UnknownCommand(sel)

C13_Witness ==
    /\ lineno = 2
    /\ line = <<"3", "x", "div">>
    /\ Len(output) = 2
    /\ output[1].tag = "Divide"
    /\ output[2] = Arith("Divide", <<Operand(3), Variable("x")>>)

\* the first operand of c, from the left, that names an absent variable
LeftmostAbsent(c) ==
    LET ks == {k \in 1..Len(c.operands) :
                  c.operands[k].tag = "Variable"
                  /\ c.operands[k].name \notin DOMAIN vars}
    IN c.operands[CHOOSE k \in ks : \A k2 \in ks : k <= k2].name

\* C14: when an arithmetic command with more than one absent name among its
\* operands fails, the MissingVariable error carries the leftmost of them.
C14_LeftmostAbsentNameReported ==
    (i >= 1 /\ IsArith(command) /\ Cardinality(AbsentNames(command)) > 1
     /\ eval_result.tag = "Err") =>
        eval_result.err = MissingVariable(LeftmostAbsent(command))

\* the places of the current command's working list that hold Nothing
NothingPlaces ==
    LET wl == working_list(Before, command.operands)
    IN {k \in 1..Len(wl) : wl[k] = Nothing}

\* C15 as stated: Nothing occurs in an arithmetic command's working list only
\* as the prepended accumulator, and only when the command is the very first
\* command of the sequence.
C15_NothingOnlyOnFirstCommand ==
    (i >= 1 /\ IsArith(command)) => \A k \in NothingPlaces : k = 1 /\ i = 1

\* C15 amended: Nothing occurs in an arithmetic command's working list only
\* as the prepended accumulator, and only when the command is the first of
\* the sequence or the one right after a SetVar.
C15_NothingOnlyAfterStartOrSetVar ==
    (i >= 1 /\ IsArith(command)) =>
        \A k \in NothingPlaces :
            /\ k = 1
            /\ IF i = 1 THEN TRUE ELSE commands[i - 1].tag = "SetVar"

C15_Witness ==
    /\ i >= 2
    /\ IsArith(command)
    /\ Succeeded
    /\ commands[i - 1].tag = "SetVar"
    /\ NothingPlaces = {1}
    /\ Len(command.operands) = 2

\* the number of commands that have completed successfully
Completed == IF Failed THEN i - 1 ELSE i

\* C16: after k commands have completed successfully the history has exactly
\* k entries and its last entry is the accumulator; a step either leaves the
\* history alone or appends one entry to it, and the step of a failing
\* command leaves it alone.
C16_HistoryAppendOnly ==
    /\ [](/\ Len(answers) = Completed
          /\ IF answers = <<>> THEN answer = Nothing
             ELSE answers[Len(answers)] = answer)
    /\ [][IF Failed' THEN answers' = answers
          ELSE \/ answers' = answers
               \/ /\ Len(answers') = Len(answers) + 1
                  /\ SubSeq(answers', 1, Len(answers)) = answers]_vars_all

C16_Witness ==
    /\ Failed
    /\ i = 4
    /\ Len(answers) = 3
    /\ answers[1].tag = "Operand"
    /\ answers[2] = Nothing
    /\ answers[3] = answer
    /\ answer.tag = "Operand"

\* C17: the variable table is empty until the first command; the step of a
\* successful SetVar keeps every name and changes no value but that of its
\* own name; every other step (an arithmetic command, successful or failing,
\* a failing SetVar, the return) leaves the table as it was.
C17_TableChangedBySetVarOnly ==
    /\ [](i = 0 => vars = NoVars)
    /\ [][IF i' = i + 1 /\ command'.tag = "SetVar" /\ ~Failed'
          THEN /\ DOMAIN vars \subseteq DOMAIN vars'
               /\ \A n \in DOMAIN vars \ {command'.name} : vars'[n] = vars[n]
          ELSE vars' = vars]_vars_all

C17_Witness ==
    /\ i = 5
    /\ command.tag = "SetVar"
    /\ Failed
    /\ DOMAIN vars = {"x", "y"}
    /\ vars["x"] # vars["y"]

\* C18: an operand token of an operation line that is a name bound by an
\* earlier assignment line stands for the number bound to it. (`line` holds
\* the tokens of the last line of the script, `command` its command.)
C18_BoundNamesAreReadable ==
    (i >= 1 /\ i = Len(commands) /\ IsArith(command)) =>
        \A k \in 1..Len(command.operands) :
            line[k] \in DOMAIN vars =>
                /\ command.operands[k].tag \in {"Operand", "Variable"}
                /\ ValueOf(command.operands[k]) = vars[line[k]]

\* the accumulator the command before commands[i] was processed on
BeforeBoth == IF i >= 3 THEN answers[i - 2] ELSE Nothing

\* C19: when two consecutive commands of the same operator have both
\* succeeded, the accumulator is the one a single command of that operator
\* leaves, on the accumulator the first of the two started from, with the
\* operands of the first followed by the operands of the second.
C19_LineSplittingIsTransparent ==
    (Succeeded /\ i >= 2 /\ IsArith(command) /\ commands[i - 1].tag = command.tag) =>
        LET r == operate(BeforeBoth, vars, command.tag,
                         commands[i - 1].operands \o command.operands)
        IN r.tag = "Ok" /\ r.val = answer

C19_Witness ==
    /\ Succeeded
    /\ i >= 3
    /\ command.tag = "Subtract"
    /\ commands[i - 1].tag = "Subtract"
    /\ BeforeBoth.tag = "Operand"
    /\ Len(commands[i - 1].operands) = 1
    /\ Len(command.operands) = 2
    /\ command.operands[2].tag = "Variable"

====
